---- MODULE Spec2Model ----
(***************************************************************************)
(* Model of src/core/postings.rs: the PostingsWriter accumulator           *)
(* (suscribe / get_term_postings / serialize), the VecPostings cursor      *)
(* (next / skip_next) and the IntersectionPostings engine (next).          *)
(*                                                                         *)
(* Three specifications share the module:                                  *)
(*   SpecWriter  - a PostingsWriter driven by suscribe and serialize       *)
(*   SpecInter   - an IntersectionPostings over VecPostings cursors        *)
(*   SpecCursor  - one VecPostings cursor driven by next and skip_next     *)
(* Vec indices are 0-based in the source and 1-based here: source index i  *)
(* is index i + 1 of the sequence.  Term handles keep their source value   *)
(* (0-based), so handle h names postings[h + 1].                           *)
(***************************************************************************)
EXTENDS Integers, Sequences, FiniteSets, TLC

\* ---------------------------------------------------------------- bounds
NumTerms == 3       \* terms are 1..NumTerms, ordered as the integers
MaxDoc == 2         \* doc ids given to suscribe are 0..MaxDoc
MaxCalls == 3       \* suscribe calls made on one PostingsWriter
MaxN == 3           \* cursors handed to from_postings
MaxDocId == 3       \* doc ids of the posting lists are 0..MaxDocId
MaxNones == 2       \* next() calls answered None that are followed up

Terms == 1..NumTerms
Docs == 0..MaxDoc
DocIds == 0..MaxDocId

None == -1          \* Option::None; Some(v) is v itself, v >= 0

VARIABLES
    term_index,     \* PostingsWriter.term_index: term -> handle
    postings,       \* PostingsWriter.postings: sequence of doc-id sequences
    calls,          \* history: the <<doc, term>> pairs given to suscribe
    events,         \* history: writer calls made by the last operation
    ser_result,     \* what the last serialize returned (NoResult otherwise)
    ipostings,      \* IntersectionPostings.postings: sequence of cursors
    results,        \* history: everything next() of the engine returned
    scan,           \* history: the skip_next calls of the last next()
    cur,            \* a VecPostings cursor on its own
    cur_op          \* history: the last operation applied to cur

writer_vars == <<term_index, postings, calls, events, ser_result>>
inter_vars == <<ipostings, results, scan>>
cursor_vars == <<cur, cur_op>>
vars == <<term_index, postings, calls, events, ser_result,
          ipostings, results, scan, cur, cur_op>>

\* -------------------------------------------------------------- helpers
Min(S) == CHOOSE x \in S : \A y \in S : x <= y

RECURSIVE SortedSeq(_)
SortedSeq(S) == IF S = {} THEN <<>>
                ELSE <<Min(S)>> \o SortedSeq(S \ {Min(S)})

Range(s) == {s[k] : k \in 1..Len(s)}

StrictlyIncreasing(s) == \A k \in 1..(Len(s) - 1) : s[k] < s[k + 1]

\* ======================================================= PostingsWriter

\* PostingsWriter::new
EmptyIndex == [t \in {} |-> 0]

\* faulty variants of CanPush: <= admits a repeated doc, # admits a smaller one
CanPush_le(doc_ids, doc) ==
    Len(doc_ids) = 0 \/ doc_ids[Len(doc_ids)] <= doc

CanPush_ne(doc_ids, doc) ==
    Len(doc_ids) = 0 \/ doc_ids[Len(doc_ids)] # doc

\* faulty variant of CanPush: && in the place of ||
CanPush_and(doc_ids, doc) ==
    Len(doc_ids) # 0 /\ doc_ids[Len(doc_ids)] < doc

\* the test of suscribe: the sequence is empty or its last doc is below doc
CanPush(doc_ids, doc) ==
    Len(doc_ids) = 0 \/ doc_ids[Len(doc_ids)] < doc

\* faulty variant of NewHandle: the term's place in key order
NewHandle_rank(ti, term) == Cardinality({u \in DOMAIN ti : u < term})

\* the handle of a term seen for the first time: term_index.len()
NewHandle(ti, term) == Cardinality(DOMAIN ti)

\* faulty variant of get_term_postings: a vector is pushed for every call
get_term_postings_push(ti, ps, term) ==
    IF term \in DOMAIN ti
    THEN [term_index |-> ti, postings |-> Append(ps, <<>>), unord_id |-> ti[term]]
    ELSE LET unord_id == NewHandle(ti, term)
         IN [term_index |-> [u \in DOMAIN ti \cup {term} |->
                                IF u = term THEN unord_id ELSE ti[u]],
             postings |-> Append(ps, <<>>),
             unord_id |-> unord_id]

\* get_term_postings: the handle of term, created when term is new
get_term_postings(ti, ps, term) ==
    IF term \in DOMAIN ti
    THEN [term_index |-> ti, postings |-> ps, unord_id |-> ti[term]]
    ELSE LET unord_id == NewHandle(ti, term)
         IN [term_index |-> [u \in DOMAIN ti \cup {term} |->
                                IF u = term THEN unord_id ELSE ti[u]],
             postings |-> Append(ps, <<>>),
             unord_id |-> unord_id]

\* faulty variant of suscribe: the doc replaces the sequence
suscribe_overwrite(ti, ps, doc, term) ==
    LET g == get_term_postings(ti, ps, term)
        doc_ids == g.postings[g.unord_id + 1]
    IN [term_index |-> g.term_index,
        postings |-> IF CanPush(doc_ids, doc)
                     THEN [g.postings EXCEPT ![g.unord_id + 1] = <<doc>>]
                     ELSE g.postings]

\* suscribe: the doc is pushed on the term's sequence when CanPush allows
suscribe(ti, ps, doc, term) ==
    LET g == get_term_postings(ti, ps, term)
        doc_ids == g.postings[g.unord_id + 1]
    IN [term_index |-> g.term_index,
        postings |-> IF CanPush(doc_ids, doc)
                     THEN [g.postings EXCEPT ![g.unord_id + 1] = Append(doc_ids, doc)]
                     ELSE g.postings]

\* ---- serialize
NoResult == [kind |-> "none", call |-> 0]
Ok == [kind |-> "ok", call |-> 0]
Err(k) == [kind |-> "err", call |-> k]      \* the failure of writer call k

\* faulty variant of NextTerm: iteration in handle (first-seen) order
NextTerm_handle(ti, remaining) ==
    CHOOSE t \in remaining : \A u \in remaining : ti[t] <= ti[u]

\* BTreeMap iteration: the smallest key not yet visited
NextTerm(ti, remaining) == Min(remaining)

\* faulty variant of Propagates: the writer's answer is ignored
Propagates_never(ok) == FALSE

\* try!: an Err from the writer makes serialize return at once
Propagates(ok) == ~ok

\* The writer is the environment: F is the set of call numbers (1st, 2nd, ...
\* call made on it) that it answers with a failure.  The loop reads ti and ps
\* through &self and hands them back as it leaves them.
RECURSIVE SerializeLoop(_, _, _, _, _)
SerializeLoop(ti, ps, remaining, F, ev) ==
    IF remaining = {}
    THEN [events |-> ev, result |-> Ok, term_index |-> ti, postings |-> ps]
    ELSE LET term == NextTerm(ti, remaining)
             doc_ids == ps[ti[term] + 1]
             term_docfreq == Len(doc_ids)   \* as u32: lossless below 2^32 docs
             e1 == [op |-> "new_term", term |-> term, docfreq |-> term_docfreq,
                    docs |-> <<>>, ok |-> (Len(ev) + 1) \notin F]
             e2 == [op |-> "write_docs", term |-> 0, docfreq |-> 0,
                    docs |-> doc_ids, ok |-> (Len(ev) + 2) \notin F]
         IN IF Propagates(e1.ok)
            THEN [events |-> Append(ev, e1), result |-> Err(Len(ev) + 1),
                  term_index |-> ti, postings |-> ps]
            ELSE IF Propagates(e2.ok)
            THEN [events |-> ev \o <<e1, e2>>, result |-> Err(Len(ev) + 2),
                  term_index |-> ti, postings |-> ps]
            ELSE SerializeLoop(ti, ps, remaining \ {term}, F, ev \o <<e1, e2>>)

\* faulty variant of serialize: the doc ids are moved out as they are written
serialize_draining(ti, ps, F) ==
    LET r == SerializeLoop(ti, ps, DOMAIN ti, F, <<>>)
        written == {ti[e.term] + 1 : e \in {r.events[k] : k \in
                        {j \in 1..Len(r.events) :
                            r.events[j].op = "new_term" /\ r.events[j].ok}}}
    IN [r EXCEPT !.postings =
            [h \in 1..Len(ps) |-> IF h \in written THEN <<>> ELSE ps[h]]]

serialize(ti, ps, F) == SerializeLoop(ti, ps, DOMAIN ti, F, <<>>)

\* ---- actions of the writer
\* what the segment writer does during one serialize: it never fails, it
\* fails one call only, or it fails every call from some call on
WriterCalls == 1..(2 * NumTerms)
FailureSets == {{}} \cup {{k} : k \in WriterCalls}
                    \cup {{j \in WriterCalls : j >= k} : k \in WriterCalls}

Suscribe ==
    /\ Len(calls) < MaxCalls
    /\ \E doc \in Docs, term \in Terms :
         LET r == suscribe(term_index, postings, doc, term)
         IN /\ term_index' = r.term_index
            /\ postings' = r.postings
            /\ calls' = Append(calls, <<doc, term>>)
    /\ events' = <<>>
    /\ ser_result' = NoResult
    /\ UNCHANGED <<inter_vars, cursor_vars>>

Serialize ==
    /\ \E F \in FailureSets :
         LET r == serialize(term_index, postings, F)
         IN /\ events' = r.events
            /\ ser_result' = r.result
            /\ term_index' = r.term_index
            /\ postings' = r.postings
    /\ UNCHANGED <<calls, inter_vars, cursor_vars>>

\* ========================================================== VecPostings

\* VecPostings::new
VecPostings(vals) == [doc_ids |-> vals, cursor |-> 0]

\* the value the cursor returned last (None before the first one)
LastReturned(p) == IF p.cursor = 0 THEN None ELSE p.doc_ids[p.cursor]

\* faulty variant of VecNext: an exhausted cursor starts over
VecNext_rewind(p) ==
    IF p.cursor >= Len(p.doc_ids)
    THEN [p |-> [p EXCEPT !.cursor = 0], val |-> None]
    ELSE [p |-> [p EXCEPT !.cursor = @ + 1], val |-> p.doc_ids[p.cursor + 1]]

\* Iterator::next of VecPostings; an exhausted cursor stays where it is
VecNext(p) ==
    IF p.cursor >= Len(p.doc_ids)
    THEN [p |-> p, val |-> None]
    ELSE [p |-> [p EXCEPT !.cursor = @ + 1], val |-> p.doc_ids[p.cursor + 1]]

\* faulty variant of Reached: the target itself is skipped
Reached_gt(val, target) == val > target

\* the guard of skip_next's first arm: Some(val) if val >= target
Reached(val, target) == val >= target

\* skip_next: calls next() until it yields a value >= target or None
RECURSIVE skip_next(_, _)
skip_next(p, target) ==
    LET r == VecNext(p)
    IN IF r.val # None /\ Reached(r.val, target) THEN r
       ELSE IF r.val = None THEN r
       ELSE skip_next(r.p, target)

\* ================================================= IntersectionPostings

\* from_postings
from_postings(ps) == ps

\* faulty variant of FirstScanned: the scan starts at source index 0
FirstScanned_zero == 0 + 1

\* faulty variant of FirstScanned: the scan starts at source index 2
FirstScanned_late == 2 + 1

\* for i in 1..self.postings.len(): the first index scanned (source index 1)
FirstScanned == 1 + 1

\* faulty variant of swap: the cursors stay in place
swap_none(ps, i) == ps

\* ptr::swap(&mut postings[i], &mut postings[0]); i >= 1, so the two
\* places are distinct and the swap exchanges them
swap(ps, i) == [ps EXCEPT ![1] = ps[i], ![i] = ps[1]]

\* faulty variant of SkipOutcome: an exhausted cursor is passed over
SkipOutcome_lenient(val, candidate) ==
    IF val = None \/ val = candidate THEN "equal" ELSE "greater"

\* faulty variant of SkipOutcome: the arm for an equal value is missing
SkipOutcome_eager(val, candidate) ==
    IF val = None THEN "none" ELSE "greater"

\* the match on skip_result
SkipOutcome(val, candidate) ==
    IF val = None THEN "none"
    ELSE IF val = candidate THEN "equal"
    ELSE "greater"

\* the value each cursor of ps returned last
Lasts(ps) == [k \in 1..Len(ps) |-> LastReturned(ps[k])]

\* the 'outer loop with its for loop, from index i on; trace collects one
\* record per skip_next call: the index and target of the call, what the
\* cursors had returned last before it (lasts, last for cursor i), its
\* result, and what the cursors have returned last, in their new order,
\* when the loop goes on (after)
RECURSIVE Scan(_, _, _, _)
Scan(ps, candidate, i, trace) ==
    IF i > Len(ps)
    THEN [postings |-> ps, val |-> candidate, scan |-> trace]
    ELSE LET r == skip_next(ps[i], candidate)
             ps1 == [ps EXCEPT ![i] = r.p]
             out == SkipOutcome(r.val, candidate)
             step == [i |-> i, target |-> candidate,
                      last |-> LastReturned(ps[i]), val |-> r.val,
                      swapped |-> (out = "greater"),
                      lasts |-> Lasts(ps),
                      after |-> IF out = "greater" THEN Lasts(swap(ps1, i))
                                ELSE Lasts(ps1)]
             trace1 == Append(trace, step)
         IN IF out = "none"
            THEN [postings |-> ps1, val |-> None, scan |-> trace1]
            ELSE IF out = "equal"
            THEN Scan(ps1, candidate, i + 1, trace1)
            ELSE Scan(swap(ps1, i), r.val, FirstScanned, trace1)

\* Iterator::next of IntersectionPostings
IntersectionNext(ps) ==
    LET r == VecNext(ps[1])
        ps1 == [ps EXCEPT ![1] = r.p]
    IN IF r.val = None
       THEN [postings |-> ps1, val |-> None, scan |-> <<>>]
       ELSE Scan(ps1, r.val, FirstScanned, <<>>)

NoneCount(rs) == Cardinality({k \in 1..Len(rs) : rs[k] = None})

\* ---- action of the engine: the caller pulls one more value
InterNext ==
    /\ NoneCount(results) < MaxNones
    /\ LET r == IntersectionNext(ipostings)
       IN /\ ipostings' = r.postings
          /\ results' = Append(results, r.val)
          /\ scan' = r.scan
    /\ UNCHANGED <<writer_vars, cursor_vars>>

\* ---- actions on a single cursor
NoOp == [kind |-> "new", target |-> None, val |-> None,
         prev_cursor |-> 0, prev_last |-> None]

CursorNext ==
    /\ LET r == VecNext(cur)
       IN /\ cur' = r.p
          /\ cur_op' = [kind |-> "next", target |-> None, val |-> r.val,
                        prev_cursor |-> cur.cursor, prev_last |-> LastReturned(cur)]
    /\ UNCHANGED <<writer_vars, inter_vars>>

CursorSkipNext ==
    /\ \E target \in 0..(MaxDocId + 1) :
         LET r == skip_next(cur, target)
         IN /\ cur' = r.p
            /\ cur_op' = [kind |-> "skip_next", target |-> target, val |-> r.val,
                          prev_cursor |-> cur.cursor, prev_last |-> LastReturned(cur)]
    /\ UNCHANGED <<writer_vars, inter_vars>>

\* ======================================================= specifications

\* strictly increasing doc-id sequences: what a posting list holds
PostingLists == {SortedSeq(S) : S \in SUBSET DocIds}

WriterIdle ==
    /\ term_index = EmptyIndex
    /\ postings = <<>>
    /\ calls = <<>>
    /\ events = <<>>
    /\ ser_result = NoResult

InterIdle ==
    /\ ipostings = <<VecPostings(<<>>)>>
    /\ results = <<>>
    /\ scan = <<>>

CursorIdle ==
    /\ cur = VecPostings(<<>>)
    /\ cur_op = NoOp

InitWriter == WriterIdle /\ InterIdle /\ CursorIdle

InitInter ==
    /\ WriterIdle
    /\ CursorIdle
    /\ \E n \in 1..MaxN :
         \E lists \in [1..n -> PostingLists] :
            ipostings = from_postings([k \in 1..n |-> VecPostings(lists[k])])
    /\ results = <<>>
    /\ scan = <<>>

InitCursor ==
    /\ WriterIdle
    /\ InterIdle
    /\ \E vals \in PostingLists : cur = VecPostings(vals)
    /\ cur_op = NoOp

NextWriter == Suscribe \/ Serialize
NextInter == InterNext
NextCursor == CursorNext \/ CursorSkipNext

SpecWriter == InitWriter /\ [][NextWriter]_vars
SpecInter == InitInter /\ [][NextInter]_vars
SpecCursor == InitCursor /\ [][NextCursor]_vars

\* the engine with a caller that keeps pulling: next() is a synchronous call
\* that the caller makes again as long as it wants values.  The condition is
\* WF_vars(InterNext) written out: InterNext is enabled exactly when CanPull
\* holds (it is total on its guard and always lengthens results), which
\* spares the evaluation of ENABLED over the whole scan.
CanPull == NoneCount(results) < MaxNones
PullFairness == []<>(~CanPull) \/ []<><<InterNext>>_vars
SpecInterFair == SpecInter /\ PullFairness

\* =============================================================== claims

\* ---- observations on the engine
\* position of the first None in rs (Len(rs) + 1 when there is none)
FirstNone(rs) ==
    IF \E k \in 1..Len(rs) : rs[k] = None
    THEN Min({k \in 1..Len(rs) : rs[k] = None})
    ELSE Len(rs) + 1

\* the values next() returned up to the first None
Output == SubSeq(results, 1, FirstNone(results) - 1)

Exhausted == \E k \in 1..Len(results) : results[k] = None

\* the set intersection of the input sequences (a swap only permutes them)
Intersection ==
    {d \in DocIds : \A k \in 1..Len(ipostings) : d \in Range(ipostings[k].doc_ids)}

\* C1: the values returned by repeated next() calls up to the first None are
\* the set intersection of the N strictly increasing input sequences, in
\* strictly ascending order without duplicates: at every moment the values
\* returned so far are an initial part of the sorted intersection, and once
\* None was returned they are all of it.
C1_IntersectionIsSetIntersection ==
    LET expected == SortedSeq(Intersection)
    IN /\ Len(Output) <= Len(expected)
       /\ \A k \in 1..Len(Output) : Output[k] = expected[k]
       /\ Exhausted => Output = expected

C1_Witness ==
    /\ Len(ipostings) = 3
    /\ Exhausted
    /\ Len(Output) >= 2
    /\ \A k \in 1..3 : Len(ipostings[k].doc_ids) > Len(Output)
    /\ \E k \in 1..Len(scan) : scan[k].swapped

\* C3: exhaustion is permanent: once next() has returned None, every later
\* next() returns None as well.
C3_ExhaustionIsPermanent ==
    \A j, k \in 1..Len(results) :
        (j < k /\ results[j] = None) => results[k] = None

\* None came from a skip_next of another cursor, twice in a row, while
\* cursor 0 still had values to give
C3_Witness ==
    /\ NoneCount(results) >= 2
    /\ scan # <<>>
    /\ scan[Len(scan)].val = None

\* C8: when one of the N input cursors is empty, the first next() returns
\* None and the engine never returns a value, wherever the empty cursor sits
\* and whatever the other cursors hold.
C8_EmptyInputGivesNothing ==
    (\E k \in 1..Len(ipostings) : Len(ipostings[k].doc_ids) = 0)
        => \A j \in 1..Len(results) : results[j] = None

\* three cursors, the empty one not at index 0, the others with values
C8_Witness ==
    /\ Len(ipostings) = 3
    /\ Len(ipostings[1].doc_ids) >= 2
    /\ \E k \in 2..3 : Len(ipostings[k].doc_ids) = 0
    /\ \E k \in 2..3 : Len(ipostings[k].doc_ids) >= 2
    /\ NoneCount(results) >= 2

\* C9: with N = 1 the engine passes the single sequence through: the k-th
\* next() returns the k-th element, then None; skip_next is never called
\* and nothing is swapped.
C9_SingleListPassThrough ==
    Len(ipostings) = 1 =>
        LET p == ipostings[1]
        IN /\ scan = <<>>
           /\ \A k \in 1..Len(results) :
                 results[k] = IF k <= Len(p.doc_ids) THEN p.doc_ids[k] ELSE None
           /\ p.cursor = IF Len(results) <= Len(p.doc_ids)
                         THEN Len(results) ELSE Len(p.doc_ids)

C9_Witness ==
    /\ Len(ipostings) = 1
    /\ Len(ipostings[1].doc_ids) >= 3
    /\ Len(Output) = Len(ipostings[1].doc_ids)
    /\ NoneCount(results) >= 2

\* C10: skip_next(target) on a cursor with a target not greater than the
\* value the cursor returned last is a no-op: it returns that value again
\* and leaves the cursor position unchanged.
C10_SkipToPassedTargetIsNoOp ==
    (/\ cur_op.kind = "skip_next"
     /\ cur_op.prev_last # None
     /\ cur_op.target <= cur_op.prev_last)
        => (cur_op.val = cur_op.prev_last /\ cur.cursor = cur_op.prev_cursor)

\* ---- observations on the writer
\* the stored doc-id sequence of a term (empty when the term is unknown)
Stored(ti, ps, term) == IF term \in DOMAIN ti THEN ps[ti[term] + 1] ELSE <<>>

\* the docs subscribed for term, in call order
RECURSIVE Subscribed(_, _)
Subscribed(cs, term) ==
    IF cs = <<>> THEN <<>>
    ELSE LET c == cs[Len(cs)]
             before == Subscribed(SubSeq(cs, 1, Len(cs) - 1), term)
         IN IF c[2] = term THEN Append(before, c[1]) ELSE before

\* the elements of s that are greater than every element before them
RECURSIVE Records(_)
Records(s) ==
    IF s = <<>> THEN <<>>
    ELSE LET d == s[Len(s)]
             before == SubSeq(s, 1, Len(s) - 1)
         IN IF \A k \in 1..Len(before) : before[k] < d
            THEN Append(Records(before), d) ELSE Records(before)

\* the distinct terms of the calls, in the order they were first seen
RECURSIVE FirstSeen(_)
FirstSeen(cs) ==
    IF cs = <<>> THEN <<>>
    ELSE LET before == FirstSeen(SubSeq(cs, 1, Len(cs) - 1))
             term == cs[Len(cs)][2]
         IN IF term \in Range(before) THEN before ELSE Append(before, term)

\* how many terms of the index are not above term: its place in key order
KeyRank(term) == Cardinality({u \in DOMAIN term_index : u <= term})

\* C2: after any sequence of suscribe calls (repeated and out-of-order docs
\* included) the stored doc-id sequence of every term is strictly increasing.
C2_StoredStrictlyIncreasing ==
    \A h \in 1..Len(postings) : StrictlyIncreasing(postings[h])

\* a sequence of two docs was stored and one of the calls was dropped
C2_Witness ==
    /\ \E h \in 1..Len(postings) : Len(postings[h]) >= 2
    /\ \E j, k \in 1..Len(calls) :
          j < k /\ calls[j][2] = calls[k][2] /\ calls[k][1] <= calls[j][1]

\* C4: with a writer that does not fail, serialize calls it, for each term in
\* ascending key order, once with new_term(term, docfreq), docfreq the length
\* of the term's sequence, directly followed by one write_docs with that
\* sequence; it makes no other call and returns Ok.
C4_SerializeEmitsInKeyOrder ==
    (ser_result # NoResult /\ \A k \in 1..Len(events) : events[k].ok) =>
        /\ ser_result = Ok
        /\ Len(events) = 2 * Cardinality(DOMAIN term_index)
        /\ \A t \in DOMAIN term_index :
              LET k == KeyRank(t)
                  doc_ids == postings[term_index[t] + 1]
              IN /\ events[2 * k - 1] =
                      [op |-> "new_term", term |-> t, docfreq |-> Len(doc_ids),
                       docs |-> <<>>, ok |-> TRUE]
                 /\ events[2 * k] =
                      [op |-> "write_docs", term |-> 0, docfreq |-> 0,
                       docs |-> doc_ids, ok |-> TRUE]

\* a successful serialize of terms whose handle order is not their key order
C4_Witness ==
    /\ ser_result = Ok
    /\ \E t, u \in DOMAIN term_index : t < u /\ term_index[t] > term_index[u]
    /\ \E h \in 1..Len(postings) : Len(postings[h]) >= 2

\* C5: serialize is fail-fast: a failed writer call is the last call
\* serialize makes and its failure is what serialize returns; serialize
\* returns Ok only when every call it made succeeded.
C5_SerializeFailFast ==
    ser_result # NoResult =>
        /\ \A k \in 1..Len(events) :
              ~events[k].ok => (k = Len(events) /\ ser_result = Err(k))
        /\ ser_result = Ok => \A k \in 1..Len(events) : events[k].ok
        /\ ser_result.kind = "err" =>
              (Len(events) >= 1 /\ ser_result.call = Len(events)
               /\ ~events[Len(events)].ok)

\* the new_term of the second of three terms failed: no write_docs for it
\* and nothing for the third term
C5_Witness ==
    /\ Cardinality(DOMAIN term_index) = 3
    /\ ser_result = Err(3)
    /\ Len(events) = 3
    /\ events[3].op = "new_term"

\* the call this step gave to suscribe
LastCall == calls[Len(calls)]

\* C6: a suscribe(doc, term) appends doc to the term's sequence exactly when
\* the sequence is empty or doc is above its last element, and otherwise
\* changes nothing; so every term's sequence is the subsequence of its
\* subscribed docs that are above every doc subscribed before for the term,
\* and the same (doc, term) twice in a row is the same as once.
C6_SuscribeAppendsOrDrops ==
    /\ [][calls' # calls =>
            LET doc == LastCall'[1]
                term == LastCall'[2]
                old == Stored(term_index, postings, term)
                new == Stored(term_index', postings', term)
            IN /\ term \in DOMAIN term_index'
               /\ IF old = <<>> \/ old[Len(old)] < doc
                  THEN new = Append(old, doc)
                  ELSE term_index' = term_index /\ postings' = postings
               /\ (calls # <<>> /\ LastCall = LastCall')
                     => (term_index' = term_index /\ postings' = postings)]_vars
    /\ [](\A t \in Terms :
            Stored(term_index, postings, t) = Records(Subscribed(calls, t)))

\* docs d, a smaller one, d again for one term: only d is stored
C6_Witness ==
    /\ Len(calls) = 3
    /\ \E t \in Terms, d, e \in Docs :
          /\ e < d
          /\ calls = <<(<<d, t>>), (<<e, t>>), (<<d, t>>)>>
          /\ Stored(term_index, postings, t) = <<d>>

\* C7: the k-th distinct term met by suscribe (from 0) has handle k, no two
\* terms share a handle, a handle never changes, and handles follow the
\* order in which terms were first seen, not their key order.
C7_HandlesFollowFirstSeen ==
    /\ [](LET seen == FirstSeen(calls)
          IN /\ DOMAIN term_index = Range(seen)
             /\ \A k \in 1..Len(seen) : term_index[seen[k]] = k - 1
             /\ \A t, u \in DOMAIN term_index :
                   term_index[t] = term_index[u] => t = u)
    /\ [][\A t \in DOMAIN term_index :
            t \in DOMAIN term_index' /\ term_index'[t] = term_index[t]]_vars

\* three terms whose first-seen order is the reverse of their key order
C7_Witness ==
    /\ Cardinality(DOMAIN term_index) = 3
    /\ \A t, u \in DOMAIN term_index : t < u => term_index[t] > term_index[u]

\* ---- observations on a single cursor
\* the indices after position pos whose element is not below target
NotBelow(p, pos, target) ==
    {k \in (pos + 1)..Len(p.doc_ids) : p.doc_ids[k] >= target}

\* C11: a cursor is forward-only under any mix of next() and
\* skip_next(target) calls, targets not above the last returned value
\* included: its position never decreases and every value it returns is
\* above the value it returned before.
C11_CursorForwardOnly ==
    /\ cur.cursor >= cur_op.prev_cursor
    /\ (cur_op.val # None /\ cur_op.prev_last # None)
          => cur_op.val > cur_op.prev_last

\* a skip_next to a target already passed that returned a value
C11_Witness ==
    /\ cur_op.kind = "skip_next"
    /\ cur_op.prev_last # None
    /\ cur_op.target < cur_op.prev_last
    /\ cur_op.val # None

\* C12: skip_next(target) returns the first element not yet consumed that is
\* not below target and leaves the cursor on it; when there is none it
\* returns None and the cursor is exhausted, every later next() and
\* skip_next returning None; a next() that follows a skip_next(target)
\* which returned a value returns nothing below target.
C12_SkipNextFindsFirstNotBelow ==
    /\ [](cur_op.kind = "skip_next" =>
            LET found == NotBelow(cur, cur_op.prev_cursor, cur_op.target)
            IN IF found # {}
               THEN /\ cur.cursor = Min(found)
                    /\ cur_op.val = cur.doc_ids[Min(found)]
               ELSE /\ cur_op.val = None
                    /\ cur.cursor = Len(cur.doc_ids))
    /\ [][(cur_op.kind = "skip_next" /\ cur_op.val = None)
             => cur_op'.val = None]_vars
    /\ [][(cur_op.kind = "skip_next" /\ cur_op.val # None
           /\ cur_op'.kind = "next" /\ cur_op'.val # None)
             => cur_op'.val >= cur_op.target]_vars

\* a skip_next that passed over two smaller elements to reach its target
C12_Witness ==
    /\ cur_op.kind = "skip_next"
    /\ cur_op.val = cur_op.target
    /\ cur.cursor >= cur_op.prev_cursor + 3

\* C13: pivot invariant of the scan inside next(): at every skip_next call
\* the cursor at index 0 is the one whose last returned value is the
\* candidate and no other cursor has returned a value above the candidate;
\* when cursor i returns a value above the candidate, cursors 0 and i are
\* exchanged, that value is the new candidate and the scan restarts at
\* index 1; when it returns the candidate the scan goes on with cursor i + 1.
C13_PivotInvariant ==
    \A k \in 1..Len(scan) :
        LET st == scan[k]
            n == Len(st.lasts)
        IN /\ st.lasts[1] = st.target
           /\ \A j \in 2..n : st.lasts[j] <= st.target
           /\ st.swapped =>
                 /\ st.val > st.target
                 /\ st.after[1] = st.val
                 /\ st.after[st.i] = st.target
                 /\ \A j \in 1..n : j \notin {1, st.i} => st.after[j] = st.lasts[j]
                 /\ k < Len(scan)
                 /\ scan[k + 1].i = 2
                 /\ scan[k + 1].target = st.val
           /\ (~st.swapped /\ k < Len(scan)) =>
                 /\ st.val = st.target
                 /\ scan[k + 1].i = st.i + 1
                 /\ scan[k + 1].target = st.target
           /\ k < Len(scan) => scan[k + 1].lasts = st.after

\* one next() over three cursors that exchanged twice, once at index 2
C13_Witness ==
    /\ Len(ipostings) = 3
    /\ Cardinality({k \in 1..Len(scan) : scan[k].swapped}) >= 2
    /\ \E k \in 1..Len(scan) : scan[k].swapped /\ scan[k].i = 3
    /\ results[Len(results)] # None

\* the elements of all input sequences together
TotalElements ==
    LET RECURSIVE Sum(_)
        Sum(k) == IF k = 0 THEN 0 ELSE Len(ipostings[k].doc_ids) + Sum(k - 1)
    IN Sum(Len(ipostings))

\* the length of the shortest input sequence
ShortestInput == Min({Len(ipostings[k].doc_ids) : k \in 1..Len(ipostings)})

\* C14: every next() over finite sequences terminates: within one call the
\* candidate is strictly above the old one at each restart of the scan and
\* unchanged otherwise, so a call restarts at most once per element; and a
\* caller that keeps pulling receives None after finitely many calls: at the
\* latest from the call that follows as many calls as the shortest input
\* has elements.
C14_NextTerminates ==
    /\ \A k \in 1..Len(scan) :
          /\ scan[k].swapped => scan[k].val > scan[k].target
          /\ k < Len(scan) =>
                scan[k + 1].target =
                   (IF scan[k].swapped THEN scan[k].val ELSE scan[k].target)
    /\ Cardinality({k \in 1..Len(scan) : scan[k].swapped}) <= TotalElements
    /\ Len(results) > ShortestInput => Exhausted

\* the same end of the pulls as a property of behaviours, under
\* SpecInterFair: a caller that keeps pulling eventually receives None
C14_EventuallyNone == <>Exhausted

\* values were returned, then a call restarted its scan twice and returned
\* the None that ends the pulls
C14_Witness ==
    /\ Exhausted
    /\ Len(Output) >= 1
    /\ Cardinality({k \in 1..Len(scan) : scan[k].swapped}) >= 2

\* s is an initial part of t
IsPrefix(s, t) == Len(s) <= Len(t) /\ \A k \in 1..Len(s) : s[k] = t[k]

\* C15: suscribe(doc, term) is append-only and local to one term: no handle
\* changes, the vector of sequences only grows at its end, every sequence
\* stored before the call is an initial part of what is stored after it, and
\* only the sequence of term may differ.
C15_SuscribeIsLocalAppend ==
    [][calls' # calls =>
         LET term == LastCall'[2]
         IN /\ \A t \in DOMAIN term_index :
                  t \in DOMAIN term_index' /\ term_index'[t] = term_index[t]
            /\ Len(postings') \in {Len(postings), Len(postings) + 1}
            /\ \A h \in 1..Len(postings) : IsPrefix(postings[h], postings'[h])
            /\ \A h \in 1..Len(postings) :
                  h # term_index'[term] + 1 => postings'[h] = postings[h]
            /\ \A t \in DOMAIN term_index :
                  t # term => Stored(term_index', postings', t)
                                 = Stored(term_index, postings, t)]_vars

\* a doc was appended to the non-empty sequence of the first term after a
\* second term had been stored
C15_Witness ==
    /\ Len(calls) = 3
    /\ calls[1][2] = calls[3][2]
    /\ calls[2][2] # calls[1][2]
    /\ Len(Stored(term_index, postings, calls[1][2])) = 2
    /\ Len(Stored(term_index, postings, calls[2][2])) = 1

\* C16: serialize is read-only on the accumulator: term_index and postings
\* are the same after the call as before it, whether it succeeded or failed,
\* so a second serialize against a writer that does not fail gives the
\* event stream of the first.
C16_SerializeIsReadOnly ==
    [][ser_result' # NoResult =>
         /\ term_index' = term_index
         /\ postings' = postings
         /\ (ser_result = Ok /\ ser_result' = Ok) => events' = events]_vars

\* a serialize that failed on its last writer call, having written the doc
\* ids of an earlier term
C16_Witness ==
    /\ ser_result.kind = "err"
    /\ Len(events) = 4
    /\ \E h \in 1..Len(postings) : Len(postings[h]) >= 2

\* C17: whenever next() returns Some(v), each of the N cursors has v as the
\* value it returned last, so the next call starts with every cursor just
\* past v.
C17_CursorsAlignedOnEmit ==
    (results # <<>> /\ results[Len(results)] # None) =>
        \A k \in 1..Len(ipostings) :
            LastReturned(ipostings[k]) = results[Len(results)]

\* a value emitted by three cursors after the scan had restarted
C17_Witness ==
    /\ Len(ipostings) = 3
    /\ results # <<>>
    /\ results[Len(results)] # None
    /\ \E k \in 1..Len(scan) : scan[k].swapped
    /\ \E k \in 1..3 : ipostings[k].cursor >= 2

\* C18: in every next() call up to and including the one that first returns
\* None, each skip_next is given a target strictly above the value its
\* cursor returned last (or the cursor has returned nothing yet).
C18_SkipTargetsAreAhead ==
    FirstNone(results) >= Len(results) =>
        \A k \in 1..Len(scan) :
            scan[k].last = None \/ scan[k].target > scan[k].last

\* a skip_next on a cursor that had already returned a value, in a call
\* that restarted its scan
C18_Witness ==
    /\ FirstNone(results) >= Len(results)
    /\ Len(results) >= 2
    /\ \E k \in 1..Len(scan) : scan[k].last # None /\ scan[k].swapped
    /\ \E k \in 1..Len(scan) : scan[k].last # None /\ ~scan[k].swapped

\* C19: in every reachable PostingsWriter state there are as many stored
\* sequences as terms in term_index and the handles are exactly 0..n-1, so
\* every handle is a valid index into postings.
C19_HandlesIndexPostings ==
    LET n == Cardinality(DOMAIN term_index)
    IN /\ Len(postings) = n
       /\ {term_index[t] : t \in DOMAIN term_index} = 0..(n - 1)
       /\ \A t \in DOMAIN term_index : term_index[t] + 1 \in 1..Len(postings)

\* two terms stored, one of them subscribed twice, then serialized
C19_Witness ==
    /\ Cardinality(DOMAIN term_index) = 2
    /\ Len(calls) = 3
    /\ ser_result = Ok

\* C20: every term of term_index has a non-empty doc-id sequence (the first
\* suscribe of a term always stores its doc), so every new_term that
\* serialize emits carries a document frequency of at least 1.
C20_EveryTermHasADoc ==
    /\ \A t \in DOMAIN term_index : Len(postings[term_index[t] + 1]) >= 1
    /\ \A k \in 1..Len(events) :
          events[k].op = "new_term" => events[k].docfreq >= 1

\* a term whose only suscribe calls carried doc 0, and its new_term event
C20_Witness ==
    /\ \E t \in DOMAIN term_index :
          /\ Stored(term_index, postings, t) = <<0>>
          /\ \E k \in 1..Len(events) :
                events[k].op = "new_term" /\ events[k].term = t
    /\ Cardinality(DOMAIN term_index) = 3

====
